---- MODULE Spec2Model ----
(***************************************************************************)
(* ZEON-Refiller: the replenishment loop (Replenisher.run), the bounded    *)
(* builder pool (builder_pool and its _on_finish watchers) and the         *)
(* per-VM build state machine (CloneWorker.run).                           *)
(*                                                                         *)
(* Control-plane coroutines run on one asyncio event loop: a coroutine     *)
(* runs until it really suspends.  asyncio.Queue.put on an unbounded       *)
(* queue, Queue.get on a non-empty queue, Semaphore.acquire on a free      *)
(* semaphore and Lock.acquire on a free lock do not suspend.  Workers are  *)
(* OS processes and run concurrently with the event loop.                  *)
(***************************************************************************)
EXTENDS Integers, Sequences, FiniteSets, TLC

\* ------------------------------------------------------------------ bounds
MaxTasks == 4          \* job ids (uuid4 values); PoolSpec starts with up to MaxTasks queued
MaxRunJobs == 2        \* CloneTasks the Replenisher creates in a run of Spec
MaxCfg == 3            \* min_ready_vm, max_ready_vm, batch_size range over 0..MaxCfg
MaxFaults == 1         \* failures injected in a run of the whole system
MaxWorkerFaults == 3   \* failures injected in the build of a single worker
PoolOpRetries == 2     \* cfg.pool_op_retries
MaxJanitorFaults == 2  \* failures injected in a run of the Replenisher alone
MaxCount == 12         \* largest value PendingCounter is driven to on its own
MaxReset == 3          \* reset_to is called with values from -MaxReset to MaxCount
MaxInv == 2            \* VMs in the inventory a listing call sees
MaxNow == 2            \* minute at which a listing call runs; timestamps are 0..MaxNow
MaxTtl == 3            \* older_than_minutes ranges over -1..MaxTtl
MaxRetries == 4        \* retry_sync is called with retries from 0 to MaxRetries
MaxBackoff == 3        \* retry_sync is called with backoff from 0 to MaxBackoff
MaxExpiries == 2       \* vCenter sessions that expire during one build
MaxDeletions == 1      \* times the VM of a build is deleted behind the worker's back
MaxWaitTimeout == 10   \* wait_for_vm_ready is called with timeouts up to this (seconds)
HexLen == 2            \* hex digits kept of a job id in the names that are renamed

\* ------------------------------------------------------- program constants
BuilderProc == 2       \* cfg.builder_proc
GuestAttempts == 3     \* range(1, 4) in _bliss_init and _game_init
GetVmIpTimeout == 300  \* default timeout of get_vm_ip (seconds)
ArpPoll == 5           \* time.sleep(5) in get_vm_ip
ConnectTimeout == 5    \* socket.create_connection(..., timeout=5)
ConnectRetrySleep == 2 \* time.sleep(2) in wait_for_vm_ready
ReadySleep == 1        \* time.sleep(1) in wait_for_vm_ready

Tasks == 1..MaxTasks

VARIABLES
    cfg,          \* Config: min_ready_vm, max_ready_vm, batch_size, pool_op_retries
    queue,        \* CLONE_QUEUE: sequence of job ids
    unfinished,   \* CLONE_QUEUE's count of items put and not yet task_done
    count,        \* PendingCounter._count
    created,      \* number of CloneTasks created so far (job ids 1..created)
    tick,         \* what the last Replenisher tick read and did
    sem,          \* value of the asyncio.Semaphore of builder_pool
    pool_pc,      \* where builder_pool is: "acquire" or "get"
    pool_running, \* builder_pool holds the event loop (has not suspended yet)
    proc,         \* job id whose task / result_q / proc the closure names refer to
    on_finish,    \* per job: state of its _on_finish watcher
    join_target,  \* per job: the process its watcher's proc.join was bound to
    overdue,      \* per job: WORKER_TIMEOUT has elapsed since the worker's spawn
    worker,       \* per job: the CloneWorker process (pc, attempt, self.vm, how the
                  \* guest-side attempt before the current one ended)
    vms,          \* per job: the VM with that job's 8-hex suffix in vSphere
    result_q,     \* per job: the multiprocessing.Queue given to the worker
    calls,        \* per job: the pool calls the worker made (statement-level runs)
    fin,          \* per job: what its watcher consumed and how often it released
    cap,          \* job ids the Replenisher may still draw up to
    budget,       \* failures the environment may still inject
    stop,         \* Replenisher._stop is set
    main_pc,      \* where main() is: "wait", "join", "gather" or "returned"
    rep_pc,       \* the task of Replenisher.run: "running", "returned" or "raised"
    inv,          \* the VMs _get_vm_list returns to a call of list_init_vms
    listing,      \* a call of list_init_vms: its argument and what it returned
    retry,        \* a call of retry_sync: arguments, attempt, calls of fn, sleeps
    gw,           \* the gateway operations of one build: sessions and self.vm
    wait,         \* a call of wait_for_vm_ready: its clock, loop and outcome
    rename,       \* a call of mark_ready or mark_fault: the name before and after
    sweep         \* a run of _cleanup_fault_vms, call by call: victims and handle

\* The state of the library calls that are exercised on their own.
callVars == <<inv, listing, retry, gw, wait, rename, sweep>>

vars == <<cfg, queue, unfinished, count, created, tick, sem, pool_pc,
          pool_running, proc, on_finish, join_target, overdue, worker, vms,
          result_q, calls, fin, cap, budget, stop, main_pc, rep_pc, callVars>>

Min(a, b) == IF a < b THEN a ELSE b
Max(a, b) == IF a > b THEN a ELSE b

\* ==================================================================
\* CloneWorker: one statement of run / prepare_vm / _cleanup_on_error
\* ==================================================================

\* A worker together with its VM and result queue, as one record.
Bundle(t) ==
    [pc |-> worker[t].pc, att |-> worker[t].att, vm |-> worker[t].vm,
     exc |-> worker[t].exc, marked |-> worker[t].marked,
     guest |-> worker[t].guest,
     name |-> vms[t].name, power |-> vms[t].power, q |-> result_q[t]]

\* Process(target=CloneWorker.run ...).start(): a worker before its first statement.
Fresh ==
    [pc |-> "clone", att |-> 1, vm |-> "none", exc |-> "none", marked |-> FALSE,
     guest |-> "none"]

NoProcess ==
    [pc |-> "none", att |-> 1, vm |-> "none", exc |-> "none", marked |-> FALSE,
     guest |-> "none"]

\* WorkerResult("ok", self.name_ready) and WorkerResult("err", self.name_error, tb):
\* vm_name is kept as the name class, tb as the statement whose exception
\* traceback.format_exc() formats.
WorkerResult(status, vm_name, message) ==
    [status |-> status, vm_name |-> vm_name, message |-> message]

Alive(t) == worker[t].pc \notin {"none", "exited", "dead"}

\* The process is alive in bundle s.
Running(s) == s.pc \notin {"none", "exited", "dead"}

\* Statements that go through retry_sync.
RetryPcs == {"clone", "power_on", "wait_ip", "power_off_r", "mark_ready_r", "cleanup_off"}

\* Statements that are a pool call on the handle self.vm.
VmPcs == {"power_on", "wait_ip", "bliss_restart", "bliss_wait", "game_restart",
          "game_wait", "mark_ready", "power_off", "power_off_r", "mark_ready_r",
          "cleanup_off", "cleanup_mark"}

\* The pool call a statement makes (the names test/conftest.py's dummy pool records).
CallOf(pc) ==
    CASE pc = "clone" -> "clone"
      [] pc = "power_on" -> "power_on"
      [] pc \in {"wait_ip", "bliss_wait", "game_wait"} -> "wait_ip"
      [] pc \in {"bliss_restart", "game_restart"} -> "restart"
      [] pc \in {"mark_ready", "mark_ready_r"} -> "mark_ready"
      [] pc \in {"power_off", "power_off_r", "cleanup_off"} -> "power_off"
      [] pc = "cleanup_mark" -> "mark_fault"
      [] OTHER -> "none"

\* retry_sync's loop "for attempt in range(1, retries + 1)" makes no call at all
\* when retries < 1.
Skipped(s, retries) == s.pc \in RetryPcs /\ s.att > retries

\* Outcomes the environment can give the statement at s.pc.
Outs(s, retries) ==
    IF Skipped(s, retries) \/ s.pc \in {"put_ok", "put_ok2", "put_err", "finish"}
    THEN {"ok"}
    ELSE IF s.pc \in VmPcs /\ (s.name = "absent" \/ s.vm = "none")
    THEN {"fail"}
    ELSE IF s.pc = "bliss" THEN {"ok", "timeout", "fail"}
    ELSE {"ok", "fail"}

\* A failure is charged to the budget unless the statement cannot succeed anyway.
Cost(s, o, retries) == IF o = "ok" \/ Outs(s, retries) = {"fail"} THEN 0 ELSE 1

\* An exception leaves prepare_vm: run's except clause calls _cleanup_on_error.
Raise(s) == [s EXCEPT !.pc = "cleanup", !.att = 1, !.exc = s.pc, !.guest = "none"]

Goto(s, pc) == [s EXCEPT !.pc = pc, !.att = 1, !.guest = "none"]

\* retry_sync around the statement at s.pc: the failed attempt is retried unless
\* it was the last one, in which case the exception is re-raised.
RetrySync(s, retries, ok, onOk) ==
    IF ok THEN onOk
    ELSE IF s.att = retries THEN Raise(s)
    ELSE [s EXCEPT !.att = s.att + 1]

\* A mark_fault that returns without having renamed the VM.
MarkFaultKeepsName(s) == [Goto(s, "put_err") EXCEPT !.marked = TRUE]

\* pool.mark_fault(self.vm) returned: _rename_with_suffix gave the VM the name
\* "[<env>] VMError_<suffix>", whatever its name class was.
MarkFault(s) == [Goto(s, "put_err") EXCEPT !.name = "Error", !.marked = TRUE]

\* An exception of the cleanup session or of mark_fault that is not caught
\* leaves _cleanup_on_error before its result_q.put.
CleanupEscapes(s) == Goto(s, "finish")

\* _cleanup_on_error: nothing raised inside the outer try leaves it.
CleanupSwallow(s) == Goto(s, "put_err")

\* An install timeout handled like any other failure of BlisInitSetup.
TimeoutRestarts(s) == [s EXCEPT !.pc = "bliss_restart", !.guest = "timeout"]

\* except TimeoutError: ... continue
AfterTimeout(s) == [s EXCEPT !.att = s.att + 1, !.guest = "timeout"]

\* The statement at s.pc with outcome o.
Exec(s, o, retries) ==
    LET ok == (o = "ok") IN
    CASE s.pc = "clone" ->
            IF Skipped(s, retries) THEN Goto(s, "power_on")
            ELSE RetrySync(s, retries, ok,
                     [Goto(s, "power_on") EXCEPT !.vm = "handle", !.name = "Init",
                                                 !.power = "off"])
      [] s.pc = "power_on" ->
            IF Skipped(s, retries) THEN Goto(s, "wait_ip")
            ELSE RetrySync(s, retries, ok, [Goto(s, "wait_ip") EXCEPT !.power = "on"])
      [] s.pc = "wait_ip" ->
            IF Skipped(s, retries) THEN Goto(s, "bliss")
            ELSE RetrySync(s, retries, ok, Goto(s, "bliss"))
      [] s.pc = "bliss" ->
            IF ok THEN Goto(s, "game")
            ELSE IF o = "timeout"
                 THEN IF s.att = GuestAttempts THEN Goto(s, "game")
                      ELSE AfterTimeout(s)
            ELSE IF s.att = GuestAttempts THEN Raise(s)
            ELSE [s EXCEPT !.pc = "bliss_restart", !.guest = "fail"]
      [] s.pc = "bliss_restart" ->
            IF ok THEN [s EXCEPT !.pc = "bliss_wait", !.power = "on"] ELSE Raise(s)
      [] s.pc = "bliss_wait" ->
            IF ok THEN [s EXCEPT !.pc = "bliss", !.att = s.att + 1] ELSE Raise(s)
      [] s.pc = "game" ->
            IF ok THEN Goto(s, "mark_ready")
            ELSE IF s.att = GuestAttempts THEN Raise(s)
            ELSE [s EXCEPT !.pc = "game_restart", !.guest = "fail"]
      [] s.pc = "game_restart" ->
            IF ok THEN [s EXCEPT !.pc = "game_wait", !.power = "on"] ELSE Raise(s)
      [] s.pc = "game_wait" ->
            IF ok THEN [s EXCEPT !.pc = "game", !.att = s.att + 1] ELSE Raise(s)
      [] s.pc = "mark_ready" ->
            IF ok THEN [Goto(s, "power_off") EXCEPT !.name = "Ready"] ELSE Raise(s)
      [] s.pc = "power_off" ->
            IF ok THEN [Goto(s, "put_ok") EXCEPT !.power = "off"] ELSE Raise(s)
      [] s.pc = "put_ok" ->
            [Goto(s, "power_off_r") EXCEPT !.q = Append(s.q, WorkerResult("ok", "Ready", "none"))]
      [] s.pc = "power_off_r" ->
            IF Skipped(s, retries) THEN Goto(s, "mark_ready_r")
            ELSE RetrySync(s, retries, ok,
                     [Goto(s, "mark_ready_r") EXCEPT !.power = "off"])
      [] s.pc = "mark_ready_r" ->
            IF Skipped(s, retries) THEN Goto(s, "put_ok2")
            ELSE RetrySync(s, retries, ok, [Goto(s, "put_ok2") EXCEPT !.name = "Ready"])
      [] s.pc = "put_ok2" ->
            [Goto(s, "finish") EXCEPT !.q = Append(s.q, WorkerResult("ok", "Ready", "none"))]
      [] s.pc = "cleanup" ->
            IF ok /\ s.vm = "handle" THEN Goto(s, "cleanup_off")
            ELSE CleanupSwallow(s)
      [] s.pc = "cleanup_off" ->
            IF Skipped(s, retries) \/ ok
            THEN [Goto(s, "cleanup_mark") EXCEPT !.power = IF ok THEN "off" ELSE s.power]
            ELSE IF s.att = retries THEN Goto(s, "cleanup_mark")
            ELSE [s EXCEPT !.att = s.att + 1]
      [] s.pc = "cleanup_mark" ->
            IF ok THEN MarkFault(s) ELSE CleanupSwallow(s)
      [] s.pc = "put_err" ->
            [Goto(s, "finish") EXCEPT !.q = Append(s.q, WorkerResult("err", "Error", s.exc))]
      [] s.pc = "finish" -> Goto(s, "exited")
      [] OTHER -> s

\* Write a bundle back to job t.
Store(t, s) ==
    /\ worker' = [worker EXCEPT ![t] = [pc |-> s.pc, att |-> s.att, vm |-> s.vm,
                                         exc |-> s.exc, marked |-> s.marked,
                                         guest |-> s.guest]]
    /\ vms' = [vms EXCEPT ![t] = [@ EXCEPT !.name = s.name, !.power = s.power]]
    /\ result_q' = [result_q EXCEPT ![t] = s.q]

\* One statement of the worker of job t.
WorkerStep(t) ==
    /\ Alive(t)
    /\ \E o \in Outs(Bundle(t), cfg.pool_op_retries) :
          /\ Cost(Bundle(t), o, cfg.pool_op_retries) <= budget
          /\ budget' = budget - Cost(Bundle(t), o, cfg.pool_op_retries)
          /\ Store(t, Exec(Bundle(t), o, cfg.pool_op_retries))
          /\ calls' = [calls EXCEPT ![t] =
                 IF CallOf(worker[t].pc) = "none"
                    \/ Skipped(Bundle(t), cfg.pool_op_retries)
                 THEN @ ELSE Append(@, CallOf(worker[t].pc))]
    /\ UNCHANGED <<cfg, queue, unfinished, count, created, tick, sem, pool_pc,
                   pool_running, proc, on_finish, join_target, overdue, fin, cap,
                   stop, main_pc, rep_pc, callVars>>

\* The worker process dies where it stands (native-library crash, kill -9).
WorkerCrash(t) ==
    /\ Alive(t)
    /\ budget > 0
    /\ budget' = budget - 1
    /\ worker' = [worker EXCEPT ![t] = [@ EXCEPT !.pc = "dead", !.att = 1,
                                                  !.guest = "none"]]
    /\ UNCHANGED <<cfg, queue, unfinished, count, created, tick, sem, pool_pc,
                   pool_running, proc, on_finish, join_target, overdue, vms,
                   result_q, calls, fin, cap,
                   stop, main_pc, rep_pc, callVars>>

\* ==================================================================
\* Workers as seen by the control plane: a whole run of CloneWorker.run
\* ==================================================================

\* Every bundle the worker can be in after some statements of its run, with
\* the budget that is left.
RECURSIVE Reach(_, _, _)
Reach(s, left, retries) ==
    {[st |-> s, left |-> left]} \cup
    IF ~Running(s) THEN {}
    ELSE UNION { Reach(Exec(s, o, retries), left - Cost(s, o, retries), retries) :
                 o \in {x \in Outs(s, retries) : Cost(s, x, retries) <= left} }

\* CloneWorker.run from its first statement to the exit of the process.
WorkerRun(t) ==
    /\ Alive(t)
    /\ \E r \in Reach(Bundle(t), budget, cfg.pool_op_retries) :
          /\ r.st.pc = "exited"
          /\ Store(t, r.st)
          /\ budget' = r.left
    /\ UNCHANGED <<cfg, queue, unfinished, count, created, tick, sem, pool_pc,
                   pool_running, proc, on_finish, join_target, overdue, calls,
                   fin, cap,
                   stop, main_pc, rep_pc, callVars>>

\* The process dies somewhere in its run without reaching its end.
WorkerDies(t) ==
    /\ Alive(t)
    /\ budget > 0
    /\ \E r \in Reach(Bundle(t), budget - 1, cfg.pool_op_retries) :
          /\ Running(r.st)
          /\ Store(t, [r.st EXCEPT !.pc = "dead", !.att = 1,
                                                  !.guest = "none"])
          /\ budget' = r.left
    /\ UNCHANGED <<cfg, queue, unfinished, count, created, tick, sem, pool_pc,
                   pool_running, proc, on_finish, join_target, overdue, calls,
                   fin, cap,
                   stop, main_pc, rep_pc, callVars>>

\* ==================================================================
\* PendingCounter
\* ==================================================================

\* An inc that is lost.
IncLost(c) == c

\* PendingCounter.inc
Inc(c) == c + 1

\* A dec without the floor.
DecBelowZero(c) == c - 1

\* PendingCounter.dec
Dec(c) == Max(0, c - 1)

\* PendingCounter.value
Value(c) == c

\* PendingCounter.reset_to(value): int(value) of an integer is that integer.
ResetTo(v) == Max(0, v)

\* The four methods, each atomic under the counter's lock; a caller keeps what
\* value() returned the way Replenisher.run does in pending_count.
CounterInc ==
    /\ count < MaxCount
    /\ count' = Inc(count)
    /\ UNCHANGED <<cfg, queue, unfinished, created, tick, sem, pool_pc,
                   pool_running, proc, on_finish, join_target, overdue, worker,
                   vms, result_q, calls, fin, cap, budget,
                   stop, main_pc, rep_pc, callVars>>

CounterDec ==
    /\ count' = Dec(count)
    /\ UNCHANGED <<cfg, queue, unfinished, created, tick, sem, pool_pc,
                   pool_running, proc, on_finish, join_target, overdue, worker,
                   vms, result_q, calls, fin, cap, budget,
                   stop, main_pc, rep_pc, callVars>>

CounterValue ==
    /\ tick' = [tick EXCEPT !.pending = Value(count)]
    /\ UNCHANGED <<cfg, queue, unfinished, count, created, sem, pool_pc,
                   pool_running, proc, on_finish, join_target, overdue, worker,
                   vms, result_q, calls, fin, cap, budget,
                   stop, main_pc, rep_pc, callVars>>

CounterResetTo(v) ==
    /\ count' = ResetTo(v)
    /\ UNCHANGED <<cfg, queue, unfinished, created, tick, sem, pool_pc,
                   pool_running, proc, on_finish, join_target, overdue, worker,
                   vms, result_q, calls, fin, cap, budget,
                   stop, main_pc, rep_pc, callVars>>

\* ==================================================================
\* Replenisher
\* ==================================================================

\* VSpherePoolManager.count_ready: names starting with "[<env>] VM2login_".
CountReady == Cardinality({t \in Tasks : vms[t].name = "Ready"})

ListFaultVms == {t \in Tasks : vms[t].name = "Error"}

ListInitVms == {t \in Tasks : vms[t].name = "Init" /\ vms[t].old}

\* The deficit computed without the upper bound.
NeedIgnoresMax(total) == cfg.batch_size

\* need = min(self.batch_size, self.max_ready_vm - total)
Need(total) == Min(cfg.batch_size, cfg.max_ready_vm - total)

\* Number of iterations of "for _ in range(need)".
Range(n) == Max(n, 0)

\* The trigger compared one too low.
TriggerOffByOne(total) == total < cfg.min_ready_vm - 1

\* if total < self.min_ready_vm
Trigger(total) == total < cfg.min_ready_vm

\* How many CloneTasks a tick that read ready and pending_count puts.
Enqueues(ready, pending_count) ==
    LET total == ready + pending_count
    IN  IF Trigger(total) THEN Range(Need(total)) ELSE 0

\* A loop that does not look at the stop flag.
LoopForever == TRUE

\* while not self._stop.is_set()
LoopCondition == ~stop

\* The calls of "for _ in range(need)" in program order: for each task first
\* CLONE_QUEUE.put(CloneTask(uuid4())), then pending.inc().
EnqueueOps(n) == [i \in 1..(2 * n) |-> IF i % 2 = 1 THEN "put" ELSE "inc"]

\* A janitor that looks for VMError_* only.
VictimsFaultOnly == ListFaultVms

\* victims = set(fault_vms) | set(init_vms)
Victims == ListFaultVms \cup ListInitVms

\* What one run of _cleanup_fault_vms takes from the failure budget: one failure
\* when listing the VMs raised (the outer except; no deletion is attempted), else
\* one for every delete_vm_by_name that raised (the inner except).
JanitorCost(listed, failed) == IF listed THEN Cardinality(failed) ELSE 1

\* One iteration of the loop of Replenisher.run: janitor, count, enqueue.  The
\* tick has no real suspension point before its sleep.
Tick ==
    /\ rep_pc = "running"
    /\ LoopCondition
    /\ ~pool_running
    /\ \E listed \in BOOLEAN, failed \in SUBSET Victims :
          /\ ~listed => failed = Victims
          /\ JanitorCost(listed, failed) <= budget
          /\ budget' = budget - JanitorCost(listed, failed)
          /\ vms' = [t \in Tasks |->
                 IF t \in Victims \ failed
                 THEN [vms[t] EXCEPT !.name = "absent", !.power = "off"]
                 ELSE vms[t]]
          /\ LET ready == CountReady
                 pending_count == count
                 n == Enqueues(ready, pending_count)
             IN  /\ created + n <= cap
                 /\ queue' = queue \o [i \in 1..n |-> created + i]
                 /\ unfinished' = unfinished + n
                 /\ count' = IF n = 0 THEN count ELSE Inc(count + n - 1)
                 /\ created' = created + n
                 /\ tick' = [ran |-> TRUE, ready |-> ready,
                             pending |-> pending_count, put |-> n,
                             ops |-> EnqueueOps(n), listed |-> listed,
                             attempts |-> IF listed THEN Cardinality(Victims) ELSE 0]
    /\ UNCHANGED <<cfg, sem, pool_pc, pool_running, proc, on_finish, join_target,
                   overdue, worker, result_q, calls, fin, cap,
                   stop, main_pc, rep_pc, callVars>>

\* An iteration of the loop in which count_ready raises (_refresh reads the VM
\* list and every vm.name from vCenter): the janitor has run, the exception is
\* caught nowhere in run and ends the coroutine; nothing is counted or enqueued.
TickCountReadyRaises ==
    /\ rep_pc = "running"
    /\ LoopCondition
    /\ ~pool_running
    /\ \E listed \in BOOLEAN, failed \in SUBSET Victims :
          /\ ~listed => failed = Victims
          /\ JanitorCost(listed, failed) + 1 <= budget
          /\ budget' = budget - (JanitorCost(listed, failed) + 1)
          /\ vms' = [t \in Tasks |->
                 IF t \in Victims \ failed
                 THEN [vms[t] EXCEPT !.name = "absent", !.power = "off"]
                 ELSE vms[t]]
    /\ rep_pc' = "raised"
    /\ UNCHANGED <<cfg, queue, unfinished, count, created, tick, sem, pool_pc,
                   pool_running, proc, on_finish, join_target, overdue, worker,
                   result_q, calls, fin, cap, stop, main_pc, callVars>>

\* ==================================================================
\* builder_pool
\* ==================================================================

\* A watcher created by asyncio.create_task runs its first step before the
\* pool coroutine is resumed: both are scheduled with call_soon, in that order.
WatchersStarted == \A t \in Tasks : on_finish[t] # "created"

PoolMayRun == pool_running \/ WatchersStarted

\* await sem.acquire()
PoolAcquire ==
    /\ pool_pc = "acquire"
    /\ PoolMayRun
    /\ sem > 0
    /\ sem' = sem - 1
    /\ pool_pc' = "get"
    /\ pool_running' = (queue # <<>>)
    /\ UNCHANGED <<cfg, queue, unfinished, count, created, tick, proc, on_finish,
                   join_target, overdue, worker, vms, result_q, calls, fin,
                   cap, budget,
                   stop, main_pc, rep_pc, callVars>>

\* task = await CLONE_QUEUE.get(); result_q = Queue(); proc = Process(...);
\* proc.start(); asyncio.create_task(_on_finish())
PoolSpawn ==
    /\ pool_pc = "get"
    /\ PoolMayRun
    /\ queue # <<>>
    /\ LET t == Head(queue)
       IN  /\ queue' = Tail(queue)
           /\ proc' = t
           /\ worker' = [worker EXCEPT ![t] = Fresh]
           /\ on_finish' = [on_finish EXCEPT ![t] = "created"]
    /\ pool_pc' = "acquire"
    /\ pool_running' = (sem > 0)
    /\ UNCHANGED <<cfg, unfinished, count, created, tick, sem, join_target,
                   overdue, vms, result_q, calls, fin, cap, budget,
                   stop, main_pc, rep_pc, callVars>>

\* _on_finish up to its first suspension: proc.join is looked up through the
\* closure variable proc and handed to the executor.
WatcherStart(t) ==
    /\ on_finish[t] = "created"
    /\ ~pool_running
    /\ on_finish' = [on_finish EXCEPT ![t] = "joining"]
    /\ join_target' = [join_target EXCEPT ![t] = proc]
    /\ UNCHANGED <<cfg, queue, unfinished, count, created, tick, sem, pool_pc,
                   pool_running, proc, overdue, worker, vms, result_q, calls,
                   fin, cap, budget,
                   stop, main_pc, rep_pc, callVars>>

\* WORKER_TIMEOUT seconds have passed since the worker of job t was started.
Deadline(t) ==
    /\ Alive(t)
    /\ ~overdue[t]
    /\ overdue' = [overdue EXCEPT ![t] = TRUE]
    /\ UNCHANGED <<cfg, queue, unfinished, count, created, tick, sem, pool_pc,
                   pool_running, proc, on_finish, join_target, worker, vms,
                   result_q, calls, fin, cap, budget,
                   stop, main_pc, rep_pc, callVars>>

\* The join of job t's watcher never returns on its timeout.
JoinNeverTimesOut(t) == ~Alive(join_target[t])

\* proc.join(WORKER_TIMEOUT) returns: the joined process has ended, or the
\* timeout, which started after that process was spawned, has run out.
JoinReturns(t) == ~Alive(join_target[t]) \/ overdue[join_target[t]]

\* _on_finish after the join: terminate, read one result, and the finally
\* block.  proc, result_q and task are read through the closure, so they are
\* those of the pool's latest iteration.  Calling the coroutine function
\* _safe_mark_fault without await runs none of its body.
WatcherFinish(t) ==
    /\ on_finish[t] = "joining"
    /\ ~pool_running
    /\ JoinReturns(t)
    /\ LET p == proc
           empty == result_q[p] = <<>>
       IN  /\ worker' = IF Alive(p)
                        THEN [worker EXCEPT ![p] = [@ EXCEPT !.pc = "dead", !.att = 1,
                                                  !.guest = "none"]]
                        ELSE worker
           /\ result_q' = IF empty THEN result_q
                          ELSE [result_q EXCEPT ![p] = Tail(@)]
           /\ fin' = [fin EXCEPT ![t] =
                  [results |-> @.results + (IF empty THEN 0 ELSE 1),
                   decs |-> @.decs + 1,
                   dones |-> @.dones + 1]]
    /\ count' = Dec(count)
    /\ sem' = sem + 1
    /\ unfinished' = unfinished - 1
    /\ on_finish' = [on_finish EXCEPT ![t] = "done"]
    /\ UNCHANGED <<cfg, queue, created, tick, pool_pc, pool_running, proc,
                   join_target, overdue, vms, calls, cap, budget,
                   stop, main_pc, rep_pc, callVars>>

\* ==================================================================
\* main: shutdown
\* ==================================================================

\* The sleep of Replenisher.run ends with the stop flag set: the loop condition
\* is false and run returns.
RepReturn ==
    /\ rep_pc = "running"
    /\ ~LoopCondition
    /\ ~pool_running
    /\ rep_pc' = "returned"
    /\ UNCHANGED <<cfg, queue, unfinished, count, created, tick, sem, pool_pc,
                   pool_running, proc, on_finish, join_target, overdue, worker,
                   vms, result_q, calls, fin, cap, budget, stop, main_pc, callVars>>

\* A SIGINT or SIGTERM has set stop_ev and main runs on: rep.stop(), then
\* await CLONE_QUEUE.join(), which does not suspend when nothing is unfinished.
MainStop ==
    /\ main_pc = "wait"
    /\ ~pool_running
    /\ stop' = TRUE
    /\ main_pc' = IF unfinished = 0 THEN "gather" ELSE "join"
    /\ UNCHANGED <<cfg, queue, unfinished, count, created, tick, sem, pool_pc,
                   pool_running, proc, on_finish, join_target, overdue, worker,
                   vms, result_q, calls, fin, cap, budget, rep_pc, callVars>>

\* asyncio.gather(*tasks) is done when both tasks are: Replenisher.run has
\* returned and builder_pool has.  builder_pool is "while True" without a
\* return or break, and main never cancels its task.
GatherDone == rep_pc \in {"returned", "raised"} /\ pool_pc = "returned"

\* main is resumed from the await it is suspended in: from join when the last
\* task_done has come, from gather when both tasks are done.
MainResume ==
    /\ main_pc \in {"join", "gather"}
    /\ ~pool_running
    /\ IF main_pc = "join" THEN unfinished = 0 ELSE GatherDone
    /\ main_pc' = IF main_pc = "join" THEN "gather" ELSE "returned"
    /\ UNCHANGED <<cfg, queue, unfinished, count, created, tick, sem, pool_pc,
                   pool_running, proc, on_finish, join_target, overdue, worker,
                   vms, result_q, calls, fin, cap, budget, stop, rep_pc, callVars>>

\* ==================================================================
\* Environment
\* ==================================================================

\* A consumer takes a ready VM out of the pool by renaming it.
ConsumerTake(t) ==
    /\ vms[t].name = "Ready"
    /\ vms' = [vms EXCEPT ![t] = [@ EXCEPT !.name = "Other"]]
    /\ UNCHANGED <<cfg, queue, unfinished, count, created, tick, sem, pool_pc,
                   pool_running, proc, on_finish, join_target, overdue, worker,
                   result_q, calls, fin, cap, budget,
                   stop, main_pc, rep_pc, callVars>>

\* An init-VM becomes older than fault_vm_ttl_minutes.
VmAges(t) ==
    /\ vms[t].name = "Init"
    /\ ~vms[t].old
    /\ vms' = [vms EXCEPT ![t] = [@ EXCEPT !.old = TRUE]]
    /\ UNCHANGED <<cfg, queue, unfinished, count, created, tick, sem, pool_pc,
                   pool_running, proc, on_finish, join_target, overdue, worker,
                   result_q, calls, fin, cap, budget,
                   stop, main_pc, rep_pc, callVars>>

\* ==================================================================
\* VM names and the listings of VSpherePoolManager
\* ==================================================================

\* A name is the sequence of its tokens.  cfg.vm_prefix.strip() is Env.
Env == <<"e">>

OtherEnv == <<"f">>

\* The 8 hex digits of a job id, task.job_id.hex[:8].
Hex == <<"a", "1">>

\* f"[{prefix}] {cls}_"
ClassPrefix(env, cls) == <<"[">> \o env \o <<"]", " ", cls, "_">>

\* f"[{prefix}] {cls}_{hex}"
FormatName(env, cls, hex) == ClassPrefix(env, cls) \o hex

\* str.startswith
StartsWith(name, prefix) ==
    /\ Len(name) >= Len(prefix)
    /\ SubSeq(name, 1, Len(prefix)) = prefix

\* Names found in a vCenter inventory: the three classes of the pool, the
\* golden image, a VMInit name with no suffix, and a VMInit of another prefix.
InventoryNames ==
    {FormatName(Env, cls, Hex) : cls \in {"VMInit", "VM2login", "VMError"}} \cup
    {<<"[">> \o Env \o <<"]", " ", "Golden">>,
     <<"[">> \o Env \o <<"]", " ", "VMInit">>,
     FormatName(OtherEnv, "VMInit", Hex)}

\* A timestamp attribute: <<>> is None, <<m>> is minute m.
Timestamps == {<<>>} \cup {<<m>> : m \in 0..MaxNow}

\* A vim.VirtualMachine as the listings see it: its name, config.createDate,
\* runtime.bootTime and whether a folder named cfg.vm_prefix is among its parents.
InventoryVms ==
    [name : InventoryNames, createDate : Timestamps, bootTime : Timestamps,
     in_env : BOOLEAN]

\* VSpherePoolManager._env_vms
EnvVms(inventory) == SelectSeq(inventory, LAMBDA vm : vm.in_env)

\* created = createDate or bootTime
CreatedOf(vm) == IF vm.createDate # <<>> THEN vm.createDate ELSE vm.bootTime

\* The loop body of list_init_vms: the VM goes to victims.
IsInitVictim(vm, cutoff) ==
    /\ StartsWith(vm.name, ClassPrefix(Env, "VMInit"))
    /\ CreatedOf(vm) # <<>>
    /\ CreatedOf(vm)[1] <= cutoff

NamesOf(seq) == [i \in 1..Len(seq) |-> seq[i].name]

\* list_init_vms with no guard on its argument.
ListInitVmsUnguarded(inventory, older_than_minutes, now) ==
    NamesOf(SelectSeq(EnvVms(inventory),
                      LAMBDA vm : IsInitVictim(vm, now - older_than_minutes)))

\* VSpherePoolManager.list_init_vms(older_than_minutes), called at minute now.
ListInitVmsOf(inventory, older_than_minutes, now) ==
    IF older_than_minutes <= 0
    THEN <<>>
    ELSE ListInitVmsUnguarded(inventory, older_than_minutes, now)

NoListing == [older_than_minutes |-> 0, done |-> FALSE, result |-> <<>>]

\* list_init_vms is called and returns.
ListInitCall ==
    /\ ~listing.done
    /\ listing' = [listing EXCEPT
                     !.done = TRUE,
                     !.result = ListInitVmsOf(inv, listing.older_than_minutes, MaxNow)]
    /\ UNCHANGED <<cfg, queue, unfinished, count, created, tick, sem, pool_pc,
                   pool_running, proc, on_finish, join_target, overdue, worker,
                   vms, result_q, calls, fin, cap, budget, stop, main_pc, rep_pc,
                   inv, retry, gw, wait, rename, sweep>>

\* ==================================================================
\* retry_sync
\* ==================================================================

\* A back-off that grows by one step per attempt.
BackoffLinear(backoff, attempt) == backoff * attempt

\* backoff * 2 ** (attempt - 1)
Backoff(backoff, attempt) == backoff * 2 ^ (attempt - 1)

\* What a call of fn does: return its value, raise an Exception, or raise a
\* BaseException that is not an Exception (KeyboardInterrupt, SystemExit).
FnOutcomes == {"ok", "exc", "base"}

\* retry_sync(fn, retries, backoff) about to start its loop.  outcomes is what
\* the calls of fn did, value and exc name the call whose value was returned
\* or whose exception left retry_sync (0: none).
NewRetry(retries, backoff) ==
    [retries |-> retries, backoff |-> backoff, pc |-> "loop", attempt |-> 1,
     outcomes |-> <<>>, sleeps |-> <<>>, value |-> 0, exc |-> 0]

NoRetry == [NewRetry(0, 0) EXCEPT !.pc = "none"]

\* One pass of the for loop: fn is called; its value is returned, or its
\* Exception is logged and then re-raised on the last attempt and slept on
\* otherwise; any other exception leaves at once.
RetryAttempt(o) ==
    /\ retry.pc = "loop"
    /\ retry.attempt <= retry.retries
    /\ LET called == [retry EXCEPT !.outcomes = Append(@, o)]
           k == Len(called.outcomes)
       IN  retry' =
             IF o = "ok" THEN [called EXCEPT !.pc = "returned", !.value = k]
             ELSE IF o = "base" \/ retry.attempt = retry.retries
             THEN [called EXCEPT !.pc = "raised", !.exc = k]
             ELSE [called EXCEPT
                     !.sleeps = Append(@, Backoff(retry.backoff, retry.attempt)),
                     !.attempt = @ + 1]
    /\ UNCHANGED <<cfg, queue, unfinished, count, created, tick, sem, pool_pc,
                   pool_running, proc, on_finish, join_target, overdue, worker,
                   vms, result_q, calls, fin, cap, budget, stop, main_pc, rep_pc,
                   inv, listing, gw, wait, rename, sweep>>

\* range(1, retries + 1) is exhausted without a call: retry_sync returns None.
RetryFallThrough ==
    /\ retry.pc = "loop"
    /\ retry.attempt > retry.retries
    /\ retry' = [retry EXCEPT !.pc = "returned"]
    /\ UNCHANGED <<cfg, queue, unfinished, count, created, tick, sem, pool_pc,
                   pool_running, proc, on_finish, join_target, overdue, worker,
                   vms, result_q, calls, fin, cap, budget, stop, main_pc, rep_pc,
                   inv, listing, gw, wait, rename, sweep>>

\* ==================================================================
\* ensure_vm_connection: the gateway operations of one build
\* ==================================================================

\* The decorated operations prepare_vm calls on self.vm when nothing fails.
PrepareOps ==
    <<"power_on_vm", "wait_for_vm_ready", "mark_ready", "power_off_vm",
      "power_off_vm", "mark_ready">>

\* The decorated operations _cleanup_on_error calls on self.vm.
CleanupOps == <<"power_off_vm", "mark_fault">>

OpsOf(phase) == IF phase = "prepare" THEN PrepareOps ELSE CleanupOps

\* pool.clone_vm has returned self.vm in session 1 of the worker's manager.
\* si is the manager's session, expired says vCenter has invalidated it,
\* handle is the session self.vm was obtained in, exists says a VM still
\* carries the name self.vm reports, log lists what the wrapper did per call.
AfterClone ==
    [phase |-> "prepare", step |-> 1, si |-> 1, sessions |-> 1,
     expired |-> FALSE, handle |-> 1, exists |-> TRUE, log |-> <<>>,
     result |-> "none", expiries |-> MaxExpiries, deletions |-> MaxDeletions,
     expired_at |-> <<>>]

NoBuild == [AfterClone EXCEPT !.phase = "none", !.expiries = 0, !.deletions = 0]

\* reconnect_if_needed: CurrentTime() raises NotAuthenticated on an invalidated
\* session, _connect opens a new one and True is returned.
ReconnectIfNeeded(g) ==
    IF g.expired
    THEN [g EXCEPT !.si = g.sessions + 1, !.sessions = g.sessions + 1,
                   !.expired = FALSE]
    ELSE g

\* The statement after the current one raised or returned.
AfterOp(g, raised) ==
    IF g.phase = "prepare" /\ raised
    THEN \* the with block disconnects; _cleanup_on_error opens its own manager
         [g EXCEPT !.phase = "cleanup", !.step = 1, !.si = g.sessions + 1,
                   !.sessions = g.sessions + 1, !.expired = FALSE]
    ELSE IF g.step < Len(OpsOf(g.phase))
    THEN [g EXCEPT !.step = g.step + 1]
    ELSE [g EXCEPT !.phase = "done",
                   !.result = IF g.phase = "prepare" THEN "ok" ELSE "err"]

\* One call of a decorated operation with self.vm.  The wrapper probes the
\* session; after a reconnect it looks the VM up by vm.name and raises
\* VMNotFoundError when there is none, else passes the new object to the body.
\* The body raises when the VM is gone; on an object of another session it may
\* raise or not (stale).
GatewayOp(stale) ==
    /\ gw.phase \in {"prepare", "cleanup"}
    /\ LET op == OpsOf(gw.phase)[gw.step]
           reconnected == gw.expired
           g == ReconnectIfNeeded(gw)
           vm == IF reconnected THEN g.si ELSE g.handle
           Entry(what) == [op |-> op, what |-> what, reconnected |-> reconnected,
                           handle |-> vm, session |-> g.si]
       IN  IF reconnected /\ ~g.exists
           THEN /\ stale = "ok"
                /\ gw' = AfterOp([g EXCEPT !.log = Append(@, Entry("VMNotFoundError"))],
                                 TRUE)
           ELSE /\ vm = g.si => stale = "ok"
                /\ gw' = AfterOp([g EXCEPT !.log = Append(@, Entry("body"))],
                                 ~g.exists \/ stale = "raise")
    /\ UNCHANGED <<cfg, queue, unfinished, count, created, tick, sem, pool_pc,
                   pool_running, proc, on_finish, join_target, overdue, worker,
                   vms, result_q, calls, fin, cap, budget, stop, main_pc, rep_pc,
                   inv, listing, retry, wait, rename, sweep>>

\* vCenter invalidates the session of the manager between two operations.
SessionExpires ==
    /\ gw.phase \in {"prepare", "cleanup"}
    /\ ~gw.expired
    /\ gw.expiries > 0
    /\ gw' = [gw EXCEPT !.expired = TRUE, !.expiries = @ - 1,
                        !.expired_at = Append(@, <<gw.phase, gw.step>>)]
    /\ UNCHANGED <<cfg, queue, unfinished, count, created, tick, sem, pool_pc,
                   pool_running, proc, on_finish, join_target, overdue, worker,
                   vms, result_q, calls, fin, cap, budget, stop, main_pc, rep_pc,
                   inv, listing, retry, wait, rename, sweep>>

\* The janitor of the Replenisher (or an operator) deletes the VM.
VmDeleted ==
    /\ gw.phase \in {"prepare", "cleanup"}
    /\ gw.exists
    /\ gw.deletions > 0
    /\ gw' = [gw EXCEPT !.exists = FALSE, !.deletions = @ - 1]
    /\ UNCHANGED <<cfg, queue, unfinished, count, created, tick, sem, pool_pc,
                   pool_running, proc, on_finish, join_target, overdue, worker,
                   vms, result_q, calls, fin, cap, budget, stop, main_pc, rep_pc,
                   inv, listing, retry, wait, rename, sweep>>

\* ==================================================================
\* wait_for_vm_ready
\* ==================================================================

\* wait_for_vm_ready(vm, timeout) at its first statement; clock is the time
\* since the call in seconds.  arp_at and port_at are the moments from which
\* NSX's ARP table holds the VM's MAC and port 5555 accepts connections
\* (<<>>: never).
NewWait(timeout, arp_at, port_at) ==
    [timeout |-> timeout, arp_at |-> arp_at, port_at |-> port_at,
     pc |-> "get_vm_ip", clock |-> 0, start_time |-> 0, error |-> "none"]

NoWait == [NewWait(0, <<>>, <<>>) EXCEPT !.pc = "none"]

\* The thing exists at the moment now.
Since(at, now) == at # <<>> /\ at[1] <= now

\* ip = self.get_vm_ip(vm): one test of its while loop.  The loop runs on
\* get_vm_ip's own default timeout.
WaitGetVmIp ==
    /\ wait.pc = "get_vm_ip"
    /\ wait' =
          IF wait.clock - wait.start_time < GetVmIpTimeout
          THEN IF Since(wait.arp_at, wait.clock)
               THEN [wait EXCEPT !.pc = "connect", !.start_time = wait.clock]
               ELSE [wait EXCEPT !.clock = @ + ArpPoll]
          ELSE [wait EXCEPT !.pc = "raised", !.error = "VMIPNotFoundError"]
    /\ UNCHANGED <<cfg, queue, unfinished, count, created, tick, sem, pool_pc,
                   pool_running, proc, on_finish, join_target, overdue, worker,
                   vms, result_q, calls, fin, cap, budget, stop, main_pc, rep_pc,
                   inv, listing, retry, gw, rename, sweep>>

\* One test of the while loop of wait_for_vm_ready: a connect that succeeds
\* returns the ip after a second; one that fails took refused seconds (none
\* when the port refuses, the connect timeout when nothing answers) and is
\* followed by the sleep.
WaitConnect(refused) ==
    /\ wait.pc = "connect"
    /\ wait' =
          IF wait.clock - wait.start_time < wait.timeout
          THEN IF Since(wait.port_at, wait.clock)
               THEN [wait EXCEPT !.pc = "returned", !.clock = @ + ReadySleep]
               ELSE [wait EXCEPT !.clock = @ + refused + ConnectRetrySleep]
          ELSE [wait EXCEPT !.pc = "raised", !.error = "VMWaitReadyError"]
    /\ UNCHANGED <<cfg, queue, unfinished, count, created, tick, sem, pool_pc,
                   pool_running, proc, on_finish, join_target, overdue, worker,
                   vms, result_q, calls, fin, cap, budget, stop, main_pc, rep_pc,
                   inv, listing, retry, gw, rename, sweep>>

\* ==================================================================
\* mark_ready and mark_fault
\* ==================================================================

\* Values of cfg.vm_prefix.strip(): one word, two words, a word with "_".
Envs == {<<"e">>, <<"e", " ", "e">>, <<"e", "_", "e">>}

\* The class tokens of names "[<env>] <Class>_<8hex>".
ClassTokens == {"VMInit", "VM2login", "VMError", "Golden"}

HexDigits == {"0", "a", "f"}

\* The suffixes task.job_id.hex[:8], shortened to HexLen digits.
Hexes == [1..HexLen -> HexDigits]

\* name.split("_", 1)[-1]: what follows the first "_".
SuffixAfterFirst(name) ==
    LET at == {i \in 1..Len(name) : name[i] = "_"}
    IN  IF at = {} THEN name
        ELSE SubSeq(name, (CHOOSE i \in at : \A j \in at : i <= j) + 1, Len(name))

\* name.rsplit("_", 1)[-1]: what follows the last "_", the whole name if
\* there is none.
RSplitLast(name) ==
    LET at == {i \in 1..Len(name) : name[i] = "_"}
    IN  IF at = {} THEN name
        ELSE SubSeq(name, (CHOOSE i \in at : \A j \in at : i >= j) + 1, Len(name))

\* _rename_with_suffix: the name rename_vm is called with.
RenameWithSuffix(env, name, new_suffix) ==
    ClassPrefix(env, new_suffix) \o RSplitLast(name)

\* mark_ready
MarkReadyName(env, name) == RenameWithSuffix(env, name, "VM2login")

\* mark_fault
MarkFaultName(env, name) == RenameWithSuffix(env, name, "VMError")

NewRename(env, cls, hex) ==
    [env |-> env, cls |-> cls, hex |-> hex, name |-> FormatName(env, cls, hex),
     op |-> "none", once |-> <<>>, twice |-> <<>>]

NoRename == NewRename(Env, "VMInit", Hex)

\* mark_ready(vm) returns, and is applied once more to the renamed VM.
MarkReadyCall ==
    /\ rename.op = "pending"
    /\ rename' = [rename EXCEPT
                    !.op = "mark_ready",
                    !.once = MarkReadyName(rename.env, rename.name),
                    !.twice = MarkReadyName(rename.env,
                                            MarkReadyName(rename.env, rename.name))]
    /\ UNCHANGED <<cfg, queue, unfinished, count, created, tick, sem, pool_pc,
                   pool_running, proc, on_finish, join_target, overdue, worker,
                   vms, result_q, calls, fin, cap, budget, stop, main_pc, rep_pc,
                   inv, listing, retry, gw, wait, sweep>>

\* mark_fault(vm) returns, and is applied once more to the renamed VM.
MarkFaultCall ==
    /\ rename.op = "pending"
    /\ rename' = [rename EXCEPT
                    !.op = "mark_fault",
                    !.once = MarkFaultName(rename.env, rename.name),
                    !.twice = MarkFaultName(rename.env,
                                            MarkFaultName(rename.env, rename.name))]
    /\ UNCHANGED <<cfg, queue, unfinished, count, created, tick, sem, pool_pc,
                   pool_running, proc, on_finish, join_target, overdue, worker,
                   vms, result_q, calls, fin, cap, budget, stop, main_pc, rep_pc,
                   inv, listing, retry, gw, wait, sweep>>

\* ==================================================================
\* Replenisher._cleanup_fault_vms, call by call
\* ==================================================================

\* The name "[<env>] <cls>_<hex of job t>".
VmName(t, cls) == <<t, cls>>

NoSweep == [pc |-> "idle", victims |-> {}, name |-> <<>>, vm |-> 0]

\* victims = set(fault_vms) | set(init_vms): the names as they are when listed.
ListedVictims ==
    {VmName(t, "Error") : t \in ListFaultVms} \cup
    {VmName(t, "Init") : t \in ListInitVms}

\* get_obj([vim.VirtualMachine], name): the VM that carries this name now, or
\* None (0).
GetObj(name) == IF vms[name[1]].name = name[2] THEN name[1] ELSE 0

\* The for loop is over, or goes on with the victims that are left.
SweepAfter(name) ==
    [pc |-> IF sweep.victims \ {name} = {} THEN "idle" ELSE "listed",
     victims |-> sweep.victims \ {name}, name |-> <<>>, vm |-> 0]

\* list_fault_vms() and list_init_vms(ttl) found something to delete.
SweepList ==
    /\ sweep.pc = "idle"
    /\ ListedVictims # {}
    /\ sweep' = [pc |-> "listed", victims |-> ListedVictims, name |-> <<>>, vm |-> 0]
    /\ UNCHANGED <<cfg, queue, unfinished, count, created, tick, sem, pool_pc,
                   pool_running, proc, on_finish, join_target, overdue, worker,
                   vms, result_q, calls, fin, cap, budget, stop, main_pc, rep_pc,
                   inv, listing, retry, gw, wait, rename>>

\* delete_vm_by_name(vm_name), first statement: the name is resolved again.
\* When no VM carries it any more, power_off_vm(None) raises and the loop's
\* except clause goes on to the next victim.
SweepGetObj(name) ==
    /\ sweep.pc = "listed"
    /\ name \in sweep.victims
    /\ sweep' = IF GetObj(name) = 0 THEN SweepAfter(name)
                 ELSE [sweep EXCEPT !.pc = "found", !.name = name, !.vm = GetObj(name)]
    /\ UNCHANGED <<cfg, queue, unfinished, count, created, tick, sem, pool_pc,
                   pool_running, proc, on_finish, join_target, overdue, worker,
                   vms, result_q, calls, fin, cap, budget, stop, main_pc, rep_pc,
                   inv, listing, retry, gw, wait, rename>>

\* delete_vm_by_name, second and third statement: power_off_vm(vm) and
\* delete_vm(vm) act on the object found, whatever its name is by now; a failure
\* of either is logged by the loop.
SweepDelete(ok) ==
    /\ sweep.pc = "found"
    /\ ok \/ budget > 0
    /\ budget' = IF ok THEN budget ELSE budget - 1
    /\ vms' = IF ok
              THEN [vms EXCEPT ![sweep.vm] = [@ EXCEPT !.name = "absent", !.power = "off"]]
              ELSE vms
    /\ sweep' = SweepAfter(sweep.name)
    /\ UNCHANGED <<cfg, queue, unfinished, count, created, tick, sem, pool_pc,
                   pool_running, proc, on_finish, join_target, overdue, worker,
                   result_q, calls, fin, cap, stop, main_pc, rep_pc,
                   inv, listing, retry, gw, wait, rename>>

\* No library call is exercised on its own.
NoCalls ==
    /\ inv = <<>>
    /\ listing = NoListing
    /\ retry = NoRetry
    /\ gw = NoBuild
    /\ wait = NoWait
    /\ rename = NoRename
    /\ sweep = NoSweep

\* ==================================================================
\* Initial states
\* ==================================================================

NoVm == [name |-> "absent", power |-> "off", old |-> FALSE]

NoTick == [ran |-> FALSE, ready |-> 0, pending |-> 0, put |-> 0, ops |-> <<>>,
           listed |-> TRUE, attempts |-> 0]

NoFin == [results |-> 0, decs |-> 0, dones |-> 0]

Configs ==
    [min_ready_vm : 0..MaxCfg, max_ready_vm : 0..MaxCfg, batch_size : 0..MaxCfg,
     pool_op_retries : {PoolOpRetries}]

\* main(): nothing enqueued, both coroutines created, neither has run yet.
Init ==
    /\ cfg \in Configs
    /\ queue = <<>>
    /\ unfinished = 0
    /\ count = 0
    /\ created = 0
    /\ tick = NoTick
    /\ sem = BuilderProc
    /\ pool_pc = "acquire"
    /\ pool_running = FALSE
    /\ proc = 0
    /\ on_finish = [t \in Tasks |-> "none"]
    /\ join_target = [t \in Tasks |-> 0]
    /\ overdue = [t \in Tasks |-> FALSE]
    /\ worker = [t \in Tasks |-> NoProcess]
    /\ vms = [t \in Tasks |-> NoVm]
    /\ result_q = [t \in Tasks |-> <<>>]
    /\ calls = [t \in Tasks |-> <<>>]
    /\ fin = [t \in Tasks |-> NoFin]
    /\ cap = MaxRunJobs
    /\ budget = MaxFaults
    /\ stop = FALSE
    /\ main_pc = "wait"
    /\ rep_pc = "running"
    /\ NoCalls

\* The state in which the pool has just spawned the worker of the first job:
\* one tick with min = max = batch = 1 put job 1, builder_pool took it, started
\* its process and its watcher, acquired the second slot and waits in get().
WorkerInit ==
    /\ cfg = [min_ready_vm |-> 1, max_ready_vm |-> 1, batch_size |-> 1,
              pool_op_retries |-> PoolOpRetries]
    /\ queue = <<>>
    /\ unfinished = 1
    /\ count = 1
    /\ created = 1
    /\ tick = [ran |-> TRUE, ready |-> 0, pending |-> 0, put |-> 1,
               ops |-> EnqueueOps(1), listed |-> TRUE, attempts |-> 0]
    /\ sem = BuilderProc - 2
    /\ pool_pc = "get"
    /\ pool_running = FALSE
    /\ proc = 1
    /\ on_finish = [t \in Tasks |-> IF t = 1 THEN "joining" ELSE "none"]
    /\ join_target = [t \in Tasks |-> IF t = 1 THEN 1 ELSE 0]
    /\ overdue = [t \in Tasks |-> FALSE]
    /\ worker = [t \in Tasks |-> IF t = 1 THEN Fresh ELSE NoProcess]
    /\ vms = [t \in Tasks |-> NoVm]
    /\ result_q = [t \in Tasks |-> <<>>]
    /\ calls = [t \in Tasks |-> <<>>]
    /\ fin = [t \in Tasks |-> NoFin]
    /\ cap = 1
    /\ budget = MaxWorkerFaults
    /\ stop = FALSE
    /\ main_pc = "wait"
    /\ rep_pc = "running"
    /\ NoCalls

WorkerNext == WorkerStep(1) \/ WorkerCrash(1)

\* One worker, statement by statement.
WorkerSpec == WorkerInit /\ [][WorkerNext]_vars

\* The state after a first tick that put n tasks (min = max = batch = n), before
\* builder_pool has run for the first time.
PoolInit ==
    \E n \in 1..MaxTasks :
        /\ cfg = [min_ready_vm |-> n, max_ready_vm |-> n, batch_size |-> n,
                  pool_op_retries |-> PoolOpRetries]
        /\ queue = [i \in 1..n |-> i]
        /\ unfinished = n
        /\ count = n
        /\ created = n
        /\ tick = [ran |-> TRUE, ready |-> 0, pending |-> 0, put |-> n,
                   ops |-> EnqueueOps(n), listed |-> TRUE, attempts |-> 0]
        /\ sem = BuilderProc
        /\ pool_pc = "acquire"
        /\ pool_running = FALSE
        /\ proc = 0
        /\ on_finish = [t \in Tasks |-> "none"]
        /\ join_target = [t \in Tasks |-> 0]
        /\ overdue = [t \in Tasks |-> FALSE]
        /\ worker = [t \in Tasks |-> NoProcess]
        /\ vms = [t \in Tasks |-> NoVm]
        /\ result_q = [t \in Tasks |-> <<>>]
        /\ calls = [t \in Tasks |-> <<>>]
        /\ fin = [t \in Tasks |-> NoFin]
        /\ cap = n
        /\ budget = MaxFaults
        /\ stop = FALSE
        /\ main_pc = "wait"
        /\ rep_pc = "running"
        /\ NoCalls

\* The module-level PendingCounter right after import: _count = 0.
CounterInit ==
    /\ cfg = [min_ready_vm |-> 1, max_ready_vm |-> 1, batch_size |-> 1,
              pool_op_retries |-> PoolOpRetries]
    /\ Init

CounterNext ==
    \/ CounterInc
    \/ CounterDec
    \/ CounterValue
    \/ \E v \in (0 - MaxReset)..MaxCount : CounterResetTo(v)

\* PendingCounter alone, under any sequence of calls.
CounterSpec == CounterInit /\ [][CounterNext]_vars

\* main() with a watermark of one or two VMs and nothing in the inventory.
MainInit ==
    /\ \E n \in 1..MaxRunJobs :
          cfg = [min_ready_vm |-> n, max_ready_vm |-> n, batch_size |-> n,
                 pool_op_retries |-> PoolOpRetries]
    /\ Init

MainNext ==
    \/ Tick
    \/ PoolAcquire
    \/ PoolSpawn
    \/ \E t \in Tasks : WatcherStart(t)
    \/ \E t \in Tasks : WatcherFinish(t)
    \/ \E t \in Tasks : Deadline(t)
    \/ \E t \in Tasks : WorkerRun(t)
    \/ \E t \in Tasks : WorkerDies(t)
    \/ MainStop
    \/ MainResume
    \/ RepReturn

\* The service from start to shutdown.
MainSpec == MainInit /\ [][MainNext]_vars

\* VMs that earlier runs of the service left in the environment's folder; they
\* carry job ids the Replenisher of this run does not draw.
Leftovers ==
    {NoVm} \cup
    [name : {"Init"}, power : {"on"}, old : BOOLEAN] \cup
    [name : {"Error", "Ready"}, power : {"off"}, old : {FALSE}]

\* The Replenisher started on an inventory that holds such VMs.
JanitorInit ==
    /\ cfg \in Configs
    /\ queue = <<>>
    /\ unfinished = 0
    /\ count = 0
    /\ created = 0
    /\ tick = NoTick
    /\ sem = BuilderProc
    /\ pool_pc = "acquire"
    /\ pool_running = FALSE
    /\ proc = 0
    /\ on_finish = [t \in Tasks |-> "none"]
    /\ join_target = [t \in Tasks |-> 0]
    /\ overdue = [t \in Tasks |-> FALSE]
    /\ worker = [t \in Tasks |-> NoProcess]
    /\ vms \in [Tasks -> Leftovers]
    /\ \A t \in 1..MaxRunJobs : vms[t] = NoVm
    /\ result_q = [t \in Tasks |-> <<>>]
    /\ calls = [t \in Tasks |-> <<>>]
    /\ fin = [t \in Tasks |-> NoFin]
    /\ cap = MaxRunJobs
    /\ budget = MaxJanitorFaults
    /\ stop = FALSE
    /\ main_pc = "wait"
    /\ rep_pc = "running"
    /\ NoCalls

JanitorNext ==
    \/ Tick
    \/ \E t \in Tasks : ConsumerTake(t)
    \/ \E t \in Tasks : VmAges(t)

\* Replenisher.run alone, as test_replenisher.py drives it: nothing takes the
\* tasks off the queue.
JanitorSpec == JanitorInit /\ [][JanitorNext]_vars

\* list_init_vms called once on an arbitrary inventory.
ListInit ==
    /\ cfg = [min_ready_vm |-> 0, max_ready_vm |-> 0, batch_size |-> 0,
              pool_op_retries |-> PoolOpRetries]
    /\ queue = <<>>
    /\ unfinished = 0
    /\ count = 0
    /\ created = 0
    /\ tick = NoTick
    /\ sem = BuilderProc
    /\ pool_pc = "acquire"
    /\ pool_running = FALSE
    /\ proc = 0
    /\ on_finish = [t \in Tasks |-> "none"]
    /\ join_target = [t \in Tasks |-> 0]
    /\ overdue = [t \in Tasks |-> FALSE]
    /\ worker = [t \in Tasks |-> NoProcess]
    /\ vms = [t \in Tasks |-> NoVm]
    /\ result_q = [t \in Tasks |-> <<>>]
    /\ calls = [t \in Tasks |-> <<>>]
    /\ fin = [t \in Tasks |-> NoFin]
    /\ cap = 0
    /\ budget = 0
    /\ stop = FALSE
    /\ main_pc = "wait"
    /\ rep_pc = "running"
    /\ inv \in [1..MaxInv -> InventoryVms]
    /\ listing \in [older_than_minutes : (0 - 1)..MaxTtl, done : {FALSE},
                    result : {<<>>}]
    /\ retry = NoRetry
    /\ gw = NoBuild
    /\ wait = NoWait
    /\ rename = NoRename
    /\ sweep = NoSweep

ListNext == ListInitCall

ListSpec == ListInit /\ [][ListNext]_vars

\* retry_sync called once with arbitrary arguments around an arbitrary fn.
RetryInit ==
    /\ cfg = [min_ready_vm |-> 0, max_ready_vm |-> 0, batch_size |-> 0,
              pool_op_retries |-> PoolOpRetries]
    /\ queue = <<>>
    /\ unfinished = 0
    /\ count = 0
    /\ created = 0
    /\ tick = NoTick
    /\ sem = BuilderProc
    /\ pool_pc = "acquire"
    /\ pool_running = FALSE
    /\ proc = 0
    /\ on_finish = [t \in Tasks |-> "none"]
    /\ join_target = [t \in Tasks |-> 0]
    /\ overdue = [t \in Tasks |-> FALSE]
    /\ worker = [t \in Tasks |-> NoProcess]
    /\ vms = [t \in Tasks |-> NoVm]
    /\ result_q = [t \in Tasks |-> <<>>]
    /\ calls = [t \in Tasks |-> <<>>]
    /\ fin = [t \in Tasks |-> NoFin]
    /\ cap = 0
    /\ budget = 0
    /\ stop = FALSE
    /\ main_pc = "wait"
    /\ rep_pc = "running"
    /\ inv = <<>>
    /\ listing = NoListing
    /\ gw = NoBuild
    /\ wait = NoWait
    /\ rename = NoRename
    /\ sweep = NoSweep
    /\ \E retries \in 0..MaxRetries, backoff \in 0..MaxBackoff :
          retry = NewRetry(retries, backoff)

RetryNext ==
    \/ \E o \in FnOutcomes : RetryAttempt(o)
    \/ RetryFallThrough

RetrySpec == RetryInit /\ [][RetryNext]_vars

\* One build from the return of clone_vm on, as the gateway sees it.
GatewayInit ==
    /\ cfg = [min_ready_vm |-> 0, max_ready_vm |-> 0, batch_size |-> 0,
              pool_op_retries |-> PoolOpRetries]
    /\ queue = <<>>
    /\ unfinished = 0
    /\ count = 0
    /\ created = 0
    /\ tick = NoTick
    /\ sem = BuilderProc
    /\ pool_pc = "acquire"
    /\ pool_running = FALSE
    /\ proc = 0
    /\ on_finish = [t \in Tasks |-> "none"]
    /\ join_target = [t \in Tasks |-> 0]
    /\ overdue = [t \in Tasks |-> FALSE]
    /\ worker = [t \in Tasks |-> NoProcess]
    /\ vms = [t \in Tasks |-> NoVm]
    /\ result_q = [t \in Tasks |-> <<>>]
    /\ calls = [t \in Tasks |-> <<>>]
    /\ fin = [t \in Tasks |-> NoFin]
    /\ cap = 0
    /\ budget = 0
    /\ stop = FALSE
    /\ main_pc = "wait"
    /\ rep_pc = "running"
    /\ inv = <<>>
    /\ listing = NoListing
    /\ retry = NoRetry
    /\ gw = AfterClone
    /\ wait = NoWait
    /\ rename = NoRename
    /\ sweep = NoSweep

GatewayNext ==
    \/ \E stale \in {"ok", "raise"} : GatewayOp(stale)
    \/ SessionExpires
    \/ VmDeleted

GatewaySpec == GatewayInit /\ [][GatewayNext]_vars

\* Moments at which the ARP entry or the open port can appear.
Moments == {<<>>, <<0>>, <<ArpPoll>>, <<MaxWaitTimeout>>}

\* wait_for_vm_ready called once.
WaitInit ==
    /\ cfg = [min_ready_vm |-> 0, max_ready_vm |-> 0, batch_size |-> 0,
              pool_op_retries |-> PoolOpRetries]
    /\ queue = <<>>
    /\ unfinished = 0
    /\ count = 0
    /\ created = 0
    /\ tick = NoTick
    /\ sem = BuilderProc
    /\ pool_pc = "acquire"
    /\ pool_running = FALSE
    /\ proc = 0
    /\ on_finish = [t \in Tasks |-> "none"]
    /\ join_target = [t \in Tasks |-> 0]
    /\ overdue = [t \in Tasks |-> FALSE]
    /\ worker = [t \in Tasks |-> NoProcess]
    /\ vms = [t \in Tasks |-> NoVm]
    /\ result_q = [t \in Tasks |-> <<>>]
    /\ calls = [t \in Tasks |-> <<>>]
    /\ fin = [t \in Tasks |-> NoFin]
    /\ cap = 0
    /\ budget = 0
    /\ stop = FALSE
    /\ main_pc = "wait"
    /\ rep_pc = "running"
    /\ inv = <<>>
    /\ listing = NoListing
    /\ retry = NoRetry
    /\ gw = NoBuild
    /\ rename = NoRename
    /\ sweep = NoSweep
    /\ \E timeout \in {0, MaxWaitTimeout \div 2, MaxWaitTimeout},
          arp_at \in Moments, port_at \in Moments :
          wait = NewWait(timeout, arp_at, port_at)

WaitNext ==
    \/ WaitGetVmIp
    \/ \E refused \in {0, ConnectTimeout} : WaitConnect(refused)

WaitSpec == WaitInit /\ [][WaitNext]_vars

\* The scale-up scenario: min_ready_vm=2, max_ready_vm=4, batch_size=3, an
\* empty folder, nothing pending, and an environment that injects no failure.
ScaleUpInit ==
    /\ cfg = [min_ready_vm |-> 2, max_ready_vm |-> 4, batch_size |-> 3,
              pool_op_retries |-> PoolOpRetries]
    /\ queue = <<>>
    /\ unfinished = 0
    /\ count = 0
    /\ created = 0
    /\ tick = NoTick
    /\ sem = BuilderProc
    /\ pool_pc = "acquire"
    /\ pool_running = FALSE
    /\ proc = 0
    /\ on_finish = [t \in Tasks |-> "none"]
    /\ join_target = [t \in Tasks |-> 0]
    /\ overdue = [t \in Tasks |-> FALSE]
    /\ worker = [t \in Tasks |-> NoProcess]
    /\ vms = [t \in Tasks |-> NoVm]
    /\ result_q = [t \in Tasks |-> <<>>]
    /\ calls = [t \in Tasks |-> <<>>]
    /\ fin = [t \in Tasks |-> NoFin]
    /\ cap = MaxTasks
    /\ budget = 0
    /\ stop = FALSE
    /\ main_pc = "wait"
    /\ rep_pc = "running"
    /\ NoCalls

\* No worker reaches WORKER_TIMEOUT and no consumer takes a VM in the scenario.
ScaleUpNext ==
    \/ Tick
    \/ PoolAcquire
    \/ PoolSpawn
    \/ \E t \in Tasks : WatcherStart(t)
    \/ \E t \in Tasks : WatcherFinish(t)
    \/ \E t \in Tasks : WorkerRun(t)

ScaleUpSpec == ScaleUpInit /\ [][ScaleUpNext]_vars

\* mark_ready or mark_fault called on a VM with a valid name.
RenameInit ==
    /\ cfg = [min_ready_vm |-> 0, max_ready_vm |-> 0, batch_size |-> 0,
              pool_op_retries |-> PoolOpRetries]
    /\ queue = <<>>
    /\ unfinished = 0
    /\ count = 0
    /\ created = 0
    /\ tick = NoTick
    /\ sem = BuilderProc
    /\ pool_pc = "acquire"
    /\ pool_running = FALSE
    /\ proc = 0
    /\ on_finish = [t \in Tasks |-> "none"]
    /\ join_target = [t \in Tasks |-> 0]
    /\ overdue = [t \in Tasks |-> FALSE]
    /\ worker = [t \in Tasks |-> NoProcess]
    /\ vms = [t \in Tasks |-> NoVm]
    /\ result_q = [t \in Tasks |-> <<>>]
    /\ calls = [t \in Tasks |-> <<>>]
    /\ fin = [t \in Tasks |-> NoFin]
    /\ cap = 0
    /\ budget = 0
    /\ stop = FALSE
    /\ main_pc = "wait"
    /\ rep_pc = "running"
    /\ inv = <<>>
    /\ listing = NoListing
    /\ retry = NoRetry
    /\ gw = NoBuild
    /\ wait = NoWait
    /\ \E env \in Envs, cls \in ClassTokens, hex \in Hexes :
          rename = [NewRename(env, cls, hex) EXCEPT !.op = "pending"]
    /\ sweep = NoSweep

RenameNext ==
    \/ MarkReadyCall
    \/ MarkFaultCall

RenameSpec == RenameInit /\ [][RenameNext]_vars

PoolNext ==
    \/ PoolAcquire
    \/ PoolSpawn
    \/ \E t \in Tasks : WatcherStart(t)
    \/ \E t \in Tasks : WatcherFinish(t)
    \/ \E t \in Tasks : Deadline(t)
    \/ \E t \in Tasks : WorkerRun(t)
    \/ \E t \in Tasks : WorkerDies(t)

\* builder_pool, its watchers and the workers on a queue that is already filled.
PoolSpec == PoolInit /\ [][PoolNext]_vars

Next ==
    \/ Tick
    \/ PoolAcquire
    \/ PoolSpawn
    \/ \E t \in Tasks : ConsumerTake(t)
    \/ \E t \in Tasks : WatcherStart(t)
    \/ \E t \in Tasks : WatcherFinish(t)
    \/ \E t \in Tasks : Deadline(t)
    \/ \E t \in Tasks : WorkerRun(t)
    \/ \E t \in Tasks : WorkerDies(t)
    \/ \E t \in Tasks : VmAges(t)

\* The whole system; a worker's run is one step.
Spec == Init /\ [][Next]_vars

\* Time passes and the event loop runs every callback that is ready; a worker
\* process may hang for ever.
PoolFairness ==
    /\ WF_vars(PoolAcquire)
    /\ WF_vars(PoolSpawn)
    /\ \A t \in Tasks : WF_vars(WatcherStart(t))
    /\ \A t \in Tasks : WF_vars(WatcherFinish(t))
    /\ \A t \in Tasks : WF_vars(Deadline(t))

FairPoolSpec == PoolSpec /\ PoolFairness

\* The event loop also resumes main and the Replenisher when they can run; the
\* arrival of a signal is not promised.
FairMainSpec ==
    MainSpec /\ PoolFairness /\ WF_vars(MainResume) /\ WF_vars(RepReturn)

\* ==================================================================
\* Claims
\* ==================================================================

TickTotal == tick.ready + tick.pending

\* C1: after the enqueue loop of every tick, the ready count the tick read plus
\* the pending counter after the tick's inc() calls is at most max_ready_vm.
C1_TotalWithinMax ==
    tick.ran => tick.ready + (tick.pending + tick.put) <= cfg.max_ready_vm

\* C2 (as stated): a tick puts exactly min(batch_size, max_ready_vm - total)
\* tasks when total < min_ready_vm, and none otherwise.
C2_PutsExactlyNeed ==
    tick.ran =>
        tick.put = IF TickTotal < cfg.min_ready_vm
                   THEN Min(cfg.batch_size, cfg.max_ready_vm - TickTotal)
                   ELSE 0

\* C2 (amended): a tick puts exactly max(0, min(batch_size, max_ready_vm - total))
\* tasks when total < min_ready_vm, and none otherwise.
C2_PutsNeedOrNothing ==
    tick.ran =>
        tick.put = IF TickTotal < cfg.min_ready_vm
                   THEN Max(0, Min(cfg.batch_size, cfg.max_ready_vm - TickTotal))
                   ELSE 0

\* C2 witness: a ready VM was taken away, total = min_ready_vm - 1, batch_size exceeds the room left under
\* max_ready_vm, and the tick put exactly that room.
C2_Witness ==
    /\ tick.ran
    /\ \E t \in Tasks : vms[t].name = "Other"
    /\ TickTotal = cfg.min_ready_vm - 1
    /\ cfg.batch_size > cfg.max_ready_vm - TickTotal
    /\ tick.put = cfg.max_ready_vm - TickTotal
    /\ tick.put > 0

\* C3 (as stated): a tick that reads total < min_ready_vm puts at least one new
\* task unless max_ready_vm - total = 0.
C3_PutsUnlessNoRoom ==
    (tick.ran /\ TickTotal < cfg.min_ready_vm /\ cfg.max_ready_vm - TickTotal # 0)
        => tick.put >= 1

\* C3 (amended): a tick that reads total < min_ready_vm puts at least one new
\* task unless min(batch_size, max_ready_vm - total) <= 0.
C3_PutsUnlessNeedNotPositive ==
    (tick.ran /\ TickTotal < cfg.min_ready_vm
              /\ Min(cfg.batch_size, cfg.max_ready_vm - TickTotal) > 0)
        => /\ tick.put >= 1
           /\ created >= tick.put
           /\ \A i \in 1..tick.put : (created - tick.put + i) \in Tasks

\* C3 witness: a tick below the low watermark that put a task.
C3_Witness ==
    /\ tick.ran
    /\ TickTotal < cfg.min_ready_vm
    /\ tick.put >= 1

Released(t) == fin[t].decs = 1 /\ fin[t].dones = 1

AllDone == queue = <<>> /\ \A t \in Tasks : t <= created => on_finish[t] = "done"

\* C4: for every task put on CLONE_QUEUE the pool eventually performs exactly one
\* pending.dec() and one task_done(); once that has happened for all of them the
\* queue's join returns and pending is back at zero.
C4_EveryTaskReleasedOnce ==
    /\ \A t \in Tasks : (t <= created) ~> Released(t)
    /\ [](\A t \in Tasks : fin[t].decs <= 1 /\ fin[t].dones <= 1)
    /\ [](AllDone => (unfinished = 0 /\ count = 0))

\* C4 witness: a worker was terminated at its deadline without a result, another
\* posted, and every task has been released.
C4_Witness ==
    /\ AllDone
    /\ created >= 2
    /\ \E t \in Tasks : worker[t].pc = "dead" /\ overdue[t]
    /\ \E t \in Tasks : worker[t].pc = "exited"
    /\ \A t \in Tasks : t <= created => Released(t)

\* C5: at most builder_proc worker processes are alive at any moment.
C5_AtMostBuilderProcAlive ==
    Cardinality({t \in Tasks : Alive(t)}) <= BuilderProc

\* C6: a worker that is past its deadline does not outlive the watcher started
\* for it: when that watcher is done the process has been terminated.
C6_NoWorkerOutlivesDeadline ==
    \A t \in Tasks : (overdue[t] /\ on_finish[t] = "done") => ~Alive(t)

\* C7: a worker that ran to its end has posted exactly one WorkerResult, and a
\* watcher acts on at most one result.
C7_ExactlyOneResult ==
    \A t \in Tasks :
        /\ worker[t].pc = "exited" => Len(result_q[t]) = 1
        /\ fin[t].results <= 1

NoFailure == budget = MaxWorkerFaults

\* C8: in a build without any failure the worker's pool calls are clone, power_on,
\* wait_ip, power_off, mark_ready in this order, and its result is OK with the
\* VM2login name.
C8_HappyPathCalls ==
    \A t \in Tasks :
        (worker[t].pc = "exited" /\ NoFailure) =>
            /\ calls[t] = <<"clone", "power_on", "wait_ip", "power_off", "mark_ready">>
            /\ result_q[t] # <<>>
            /\ Head(result_q[t]) = WorkerResult("ok", "Ready", "none")

\* C9: the only renames of a job's VM are Init to Ready and Init to Error; a VM
\* in the Ready class is never renamed to the Error class.
C9_OnlyInitIsRenamed ==
    [][\A t \in Tasks :
          vms'[t].name # vms[t].name =>
              \/ vms[t].name = "absent" /\ vms'[t].name = "Init"
              \/ vms[t].name = "Init" /\ vms'[t].name \in {"Ready", "Error"}]_vars

Last(q) == q[Len(q)]

\* C10: when a statement of prepare_vm raised, run still reaches its end and the
\* last result it posted is ERR with the VMError name and the traceback of that
\* failure; when clone was the failing statement no power_on, wait_ip or
\* mark_ready call was made.
C10_ErrResultAfterFailure ==
    \A t \in Tasks :
        /\ (worker[t].pc \in {"finish", "exited"} /\ worker[t].exc # "none") =>
              /\ result_q[t] # <<>>
              /\ Last(result_q[t]) = WorkerResult("err", "Error", worker[t].exc)
        /\ worker[t].exc = "clone" =>
              \A i \in 1..Len(calls[t]) :
                  calls[t][i] \notin {"power_on", "wait_ip", "mark_ready"}

\* C10 witness: clone failed on every retry, cleanup ran and the ERR result is posted.
C10_Witness ==
    /\ worker[1].pc = "exited"
    /\ worker[1].exc = "clone"
    /\ calls[1] = [i \in 1..cfg.pool_op_retries |-> "clone"]
    /\ result_q[1] = <<WorkerResult("err", "Error", "clone")>>

\* run has posted ERR for a failure that came after a successful clone.
ErrPosted(t) ==
    /\ worker[t].pc \in {"finish", "exited"}
    /\ worker[t].exc \notin {"none", "clone"}
    /\ worker[t].vm = "handle"

C12_ThirdFailureGoesToCleanup ==
    [][\A t \in Tasks :
          (/\ worker[t].pc \in {"bliss", "game"}
           /\ worker[t].att = GuestAttempts
           /\ budget' < budget
           /\ worker'[t].pc # "dead")
              => worker'[t].pc = "cleanup"]_vars

\* The watcher of job t has finished and job t's worker gave no OK result: it
\* was terminated or died, or ran to its end with a failure.
NoOkResult(t) ==
    /\ on_finish[t] = "done"
    /\ \/ worker[t].pc = "dead" /\ worker[t].vm = "handle" /\ vms[t].name = "Init"
       \/ worker[t].pc = "exited" /\ worker[t].exc # "none"

\* C13: when the watcher of a task whose worker yielded no OK result has
\* decremented pending, the pool has run mark_fault on the task's init name: no
\* VM of such a task is still named VMInit_<hex>.
C13_PoolMarksFault ==
    \A t \in Tasks : (NoOkResult(t) /\ fin[t].decs >= 1) => vms[t].name # "Init"

\* C14: pending is decremented for a task only after that task's own worker
\* process has ended: no task has had its dec while its worker is alive.
C14_DecAfterOwnWorkerEnded ==
    \A t \in Tasks : fin[t].decs >= 1 => ~Alive(t)

\* Number of calls named op among the first i calls of the tick's enqueue loop.
OpsBefore(op, i) == Cardinality({j \in 1..i : tick.ops[j] = op})

\* C15: for every task a tick enqueues, pending.inc() happens before the
\* CLONE_QUEUE.put of that task: at every put the counter has already been
\* incremented for it.
C15_IncBeforePut ==
    tick.ran =>
        \A i \in 1..Len(tick.ops) :
            tick.ops[i] = "put" => OpsBefore("inc", i) >= OpsBefore("put", i)

\* C16: the counter is never negative; inc adds exactly 1, dec subtracts 1 but
\* leaves 0 at 0, reset_to(v) stores v or 0 when v is negative, and value
\* returns the count and changes nothing.
C16_CounterNeverNegative ==
    /\ [](count >= 0)
    /\ [][/\ CounterInc => count' = count + 1
          /\ CounterDec => count' = (IF count = 0 THEN 0 ELSE count - 1)
          /\ CounterValue => (count' = count /\ tick'.pending = count)
          /\ \A v \in (0 - MaxReset)..MaxCount :
                CounterResetTo(v) => count' = (IF v < 0 THEN 0 ELSE v)]_vars

\* C16 witness: value() returned the largest count and the counter was brought
\* back to 0 afterwards.
C16_Witness == count = 0 /\ tick.pending = MaxCount

\* C17: once the signal has arrived and main has stopped the Replenisher, main
\* eventually returns.
C17_MainEventuallyReturns == (main_pc # "wait") ~> (main_pc = "returned")

\* C18: when main is past the drain (CLONE_QUEUE.join() has returned), every
\* task that was enqueued has had its task_done and its worker has ended.
C18_DrainedBeforeProceeding ==
    main_pc \in {"gather", "returned"} =>
        \A t \in Tasks : t <= created => (fin[t].dones = 1 /\ ~Alive(t))

\* C19: once stop() has set the flag no further tick starts: no task is
\* created or put, pending is not incremented and the janitor deletes nothing;
\* and Replenisher.run returns.
C19_StopEndsTheLoop ==
    /\ [][stop => /\ created' = created
                  /\ tick' = tick
                  /\ Len(queue') <= Len(queue)
                  /\ count' <= count
                  /\ \A t \in Tasks :
                        vms[t].name # "absent" => vms'[t].name # "absent"]_vars
    /\ [](rep_pc = "returned" => stop)
    /\ stop ~> (rep_pc = "returned")

\* C19 witness: run has returned after a stop that came when a tick had put two
\* tasks and a worker was still building.
C19_Witness ==
    /\ rep_pc = "returned"
    /\ tick.put = 2
    /\ \E t \in Tasks : Alive(t)

\* C20: every tick runs the janitor first: unless listing the VMs failed it
\* attempts one deletion for each VMError_* and each expired VMInit_*; every
\* victim whose deletion did not fail is gone, a failed deletion only leaves
\* that VM in place, no other VM is touched, and the tick goes on to count and
\* enqueue whatever the janitor met; the loop keeps running.
C20_JanitorNeverHalts ==
    [][Tick =>
          /\ tick'.ran
          /\ tick'.listed =>
                /\ tick'.attempts = Cardinality(ListFaultVms \cup ListInitVms)
                /\ Cardinality({t \in ListFaultVms \cup ListInitVms :
                                   vms'[t].name # "absent"}) = budget - budget'
          /\ \A t \in Tasks \ (ListFaultVms \cup ListInitVms) : vms'[t] = vms[t]
          /\ tick'.ready = Cardinality({t \in Tasks : vms'[t].name = "Ready"})
          /\ tick'.pending = count
          /\ tick'.put = (IF tick'.ready + tick'.pending < cfg.min_ready_vm
                          THEN Max(0, Min(cfg.batch_size,
                                          cfg.max_ready_vm - (tick'.ready + tick'.pending)))
                          ELSE 0)
          /\ created' = created + tick'.put
          /\ rep_pc' = "running"]_vars

\* C20 witness: the janitor attempted two deletions, one failed and left its
\* VMError_* in place, the other VM is gone, and the same tick put a task.
C20_Witness ==
    /\ tick.ran
    /\ tick.listed
    /\ tick.attempts = 2
    /\ budget = MaxJanitorFaults - 1
    /\ \E t, u \in Tasks : vms[t].name = "Error" /\ u # t /\ vms[u].name = "absent"
                           /\ u > MaxRunJobs
    /\ \A t \in Tasks : vms[t].name \in {"Error", "absent"}
    /\ tick.put >= 1

C22_RetrySync ==
    LET r == retry
        n == Len(r.outcomes)
        Failed(k) == r.outcomes[k] = "exc"
    IN  r.pc \in {"loop", "returned", "raised"} =>
          /\ n <= r.retries
          /\ \A k \in 1..n : r.outcomes[k] = "ok" =>
                /\ k = n
                /\ r.pc = "returned"
                /\ r.value = k
                /\ \A j \in 1..(k - 1) : Failed(j)
          /\ (r.retries >= 1 /\ n = r.retries /\ \A k \in 1..n : Failed(k)) =>
                r.pc = "raised" /\ r.exc = r.retries
          /\ Len(r.sleeps) = Cardinality({a \in 1..n : Failed(a) /\ a < r.retries})
          /\ \A a \in 1..Len(r.sleeps) : r.sleeps[a] = r.backoff * 2 ^ (a - 1)

\* C22 witness: with a positive backoff the fourth call was the first to
\* succeed, after three sleeps.
C22_Witness ==
    /\ retry.pc = "returned"
    /\ retry.backoff > 0
    /\ Len(retry.outcomes) = 4
    /\ Len(retry.sleeps) = 3
    /\ retry.value = 4

\* C23: every gateway operation on a VM handle probes the session at entry and,
\* after a reconnect, runs its body on a handle re-resolved by name or raises
\* VMNotFoundError; so a build whose session was invalidated between power_on
\* and wait_for_vm_ready, and that met no other disturbance, does not fail.
C23_ExpiryBeforeWaitKeepsBuild ==
    (/\ gw.phase = "done"
     /\ gw.expired_at = << <<"prepare", 2>> >>
     /\ gw.exists)
        => gw.result = "ok"

\* C24: no gateway operation is executed with a VM handle that was obtained in
\* a session other than the one the operation runs on.
C24_NoHandleAcrossSessions ==
    \A i \in 1..Len(gw.log) :
        gw.log[i].what = "body" => gw.log[i].handle = gw.log[i].session

\* C25: wait_for_vm_ready(vm, timeout) ends by returning the ip after a
\* successful connect to port 5555 or by raising VMWaitReadyError, never
\* another error, also when NSX's ARP table never holds the MAC; and it ends
\* no later than timeout seconds after the call (one polling round is allowed
\* on top).
C25_ReadyOrWaitReadyError ==
    /\ wait.pc = "returned" => wait.port_at # <<>>
    /\ wait.pc = "raised" => wait.error = "VMWaitReadyError"
    /\ wait.pc \in {"returned", "raised"} =>
          wait.clock <= wait.timeout + ConnectTimeout + ConnectRetrySleep

\* C26: in the scale-up scenario the first tick enqueues exactly 3 tasks, a
\* tick that sees ready + pending >= 2 enqueues nothing, and once exactly two
\* workers have finished OK and the pool has handled every process end it can
\* handle, the folder holds exactly two VM2login_* and pending is 1.
C26_ScaleUpScenario ==
    /\ (tick.ran /\ tick.ready = 0 /\ tick.pending = 0) => tick.put = 3
    /\ (tick.ran /\ tick.ready + tick.pending >= 2) => tick.put = 0
    /\ (/\ Cardinality({t \in Tasks : worker[t].pc = "exited"
                                      /\ vms[t].name = "Ready"}) = 2
        /\ ~pool_running
        /\ \A t \in Tasks : on_finish[t] # "created"
        /\ \A t \in Tasks : on_finish[t] = "joining" => ~JoinReturns(t))
          => /\ CountReady = 2
             /\ count = 1

\* C27: mark_ready and mark_fault turn a valid name "[<env>] <Class>_<hex>"
\* into "[<env>] VM2login_<hex>" and "[<env>] VMError_<hex>": the suffix and
\* the env prefix are kept, applying the operation twice gives the same name
\* as once, and the new name starts with the prefix of exactly one class.
C27_RenameKeepsSuffix ==
    rename.op \in {"mark_ready", "mark_fault"} =>
        LET token == IF rename.op = "mark_ready" THEN "VM2login" ELSE "VMError"
            Matches == {c \in {"VMInit", "VM2login", "VMError"} :
                           StartsWith(rename.once,
                                      <<"[">> \o rename.env \o <<"]", " ", c, "_">>)}
        IN  /\ rename.once =
                  <<"[">> \o rename.env \o <<"]", " ", token, "_">> \o rename.hex
            /\ rename.twice = rename.once
            /\ Matches = {token}

\* C27 witness: mark_fault renamed a VM2login VM whose env prefix contains "_".
C27_Witness ==
    /\ rename.op = "mark_fault"
    /\ rename.env = <<"e", "_", "e">>
    /\ rename.cls = "VM2login"
    /\ rename.once # rename.name
    /\ Len(rename.once) = Len(rename.name)

EndsWith(seq, tail) ==
    /\ Len(seq) >= Len(tail)
    /\ SubSeq(seq, Len(seq) - Len(tail) + 1, Len(seq)) = tail

\* C28: BOOTSTRAP and APP_TUTORIAL make at most 3 attempts each; a BOOTSTRAP
\* attempt that timed out is followed by the next attempt with no pool call in
\* between; after any other failed attempt of either phase the next attempt
\* comes right after a restart and a completed wait_for_vm_ready; no restart
\* follows a third failed attempt.
C28_GuestRetries ==
    [][\A t \in Tasks :
          LET pc == worker[t].pc
              next == worker'[t].pc
              how == worker'[t].guest
          IN  /\ next \in {"bliss", "game"} => worker'[t].att <= GuestAttempts
              /\ (pc = "bliss" /\ how = "timeout") =>
                    /\ next = "bliss"
                    /\ worker'[t].att = worker[t].att + 1
                    /\ calls'[t] = calls[t]
              /\ (pc \in {"bliss", "game"} /\ how = "fail") =>
                    /\ worker[t].att < GuestAttempts
                    /\ next = (IF pc = "bliss" THEN "bliss_restart" ELSE "game_restart")
              /\ (next \in {"bliss", "game"} /\ how = "fail") =>
                    /\ pc = (IF next = "bliss" THEN "bliss_wait" ELSE "game_wait")
                    /\ worker'[t].att = worker[t].att + 1
                    /\ EndsWith(calls'[t], <<"restart", "wait_ip">>)
              /\ (next = "game" /\ worker'[t].att > 1) => how = "fail"
              /\ (next = "bliss" /\ worker'[t].att > 1) => how \in {"timeout", "fail"}
              /\ (next \in {"bliss_restart", "game_restart"}) =>
                    /\ how = "fail"
                    /\ pc \in {"bliss", "game"}
                    /\ worker[t].att < GuestAttempts]_vars

\* C28 witness: BOOTSTRAP went through a timed-out attempt and an attempt that
\* failed otherwise, APP_TUTORIAL failed once, and the tutorial is at its
\* second attempt after two restarts.
C28_Witness ==
    /\ worker[1].pc = "game"
    /\ worker[1].att = 2
    /\ budget = 0
    /\ calls[1] = <<"clone", "power_on", "wait_ip", "restart", "wait_ip",
                    "restart", "wait_ip">>

\* C29: a VM is in the Ready class (named VM2login_<hex>) only after the
\* worker's power-off has returned: no VM is named VM2login_<hex> while it is
\* powered on.
C29_ReadyOnlyWhenPoweredOff ==
    \A t \in Tasks : vms[t].name = "Ready" => vms[t].power = "off"

\* C30: the watcher started for a task joins that task's worker process, and
\* when it finishes it terminates no other task's worker and reads no other
\* task's result queue.
C30_WatcherActsOnOwnTask ==
    [][\A t \in Tasks :
          /\ (on_finish[t] = "created" /\ on_finish'[t] = "joining") =>
                join_target'[t] = t
          /\ (on_finish[t] = "joining" /\ on_finish'[t] = "done") =>
                \A u \in Tasks \ {t} :
                    /\ Alive(u) => worker'[u] = worker[u]
                    /\ result_q'[u] = result_q[u]]_vars


\* main() with min = max = batch of one or two VMs, an empty folder, room for
\* more jobs than the watermark, and an environment that injects no failure.
InventoryInit ==
    /\ \E n \in 1..MaxRunJobs :
          cfg = [min_ready_vm |-> n, max_ready_vm |-> n, batch_size |-> n,
                 pool_op_retries |-> PoolOpRetries]
    /\ queue = <<>>
    /\ unfinished = 0
    /\ count = 0
    /\ created = 0
    /\ tick = NoTick
    /\ sem = BuilderProc
    /\ pool_pc = "acquire"
    /\ pool_running = FALSE
    /\ proc = 0
    /\ on_finish = [t \in Tasks |-> "none"]
    /\ join_target = [t \in Tasks |-> 0]
    /\ overdue = [t \in Tasks |-> FALSE]
    /\ worker = [t \in Tasks |-> NoProcess]
    /\ vms = [t \in Tasks |-> NoVm]
    /\ result_q = [t \in Tasks |-> <<>>]
    /\ calls = [t \in Tasks |-> <<>>]
    /\ fin = [t \in Tasks |-> NoFin]
    /\ cap = MaxTasks
    /\ budget = 0
    /\ stop = FALSE
    /\ main_pc = "wait"
    /\ rep_pc = "running"
    /\ NoCalls

\* Consumers take ready VMs and nothing else.
InventoryNext ==
    \/ Tick
    \/ PoolAcquire
    \/ PoolSpawn
    \/ \E t \in Tasks : ConsumerTake(t)
    \/ \E t \in Tasks : WatcherStart(t)
    \/ \E t \in Tasks : WatcherFinish(t)
    \/ \E t \in Tasks : WorkerRun(t)

InventorySpec == InventoryInit /\ [][InventoryNext]_vars

\* The task is on CLONE_QUEUE.
Queued(t) == \E i \in 1..Len(queue) : queue[i] = t

\* The task was enqueued and its build has neither produced a Ready VM nor
\* terminated.
Building(t) ==
    /\ t <= created
    /\ Queued(t) \/ Alive(t)
    /\ vms[t].name \notin {"Ready", "Other"}

RealInventory == CountReady + Cardinality({t \in Tasks : Building(t)})

\* C31: at every moment the number of VM2login_* VMs plus the number of enqueued
\* CloneTasks whose build has neither produced a Ready VM nor terminated is at
\* most max_ready_vm (it is so initially, and consumers take ready VMs only).
C31_InventoryWithinMax == RealInventory <= cfg.max_ready_vm


\* No coroutine of the control plane is in the middle of a step: every action
\* but the pool's runs from one suspension point to the next, and the pool is
\* between two awaits that did not suspend exactly while pool_running.
AtSuspensionPoint == ~pool_running

TtlRaceNext ==
    \/ WorkerStep(1)
    \/ WorkerCrash(1)
    \/ Tick
    \/ \E t \in Tasks : VmAges(t)

\* One worker, statement by statement, while the Replenisher ticks and the
\* clone's age passes fault_vm_ttl_minutes (which may be shorter than a build).
TtlRaceSpec == WorkerInit /\ [][TtlRaceNext]_vars

\* C33: the janitor never deletes a VMInit_<hex> VM while the worker process
\* building it is still alive.
C33_NoDeleteWhileWorkerAlive ==
    [][\A t \in Tasks :
          (vms[t].name = "Init" /\ vms'[t].name = "absent") => ~Alive(t)]_vars


ResultNext ==
    \/ WorkerStep(1)
    \/ WorkerCrash(1)
    \/ Deadline(1)
    \/ WatcherFinish(1)

\* One worker, statement by statement, and the watcher that joins it.
ResultSpec == WorkerInit /\ [][ResultNext]_vars

\* The watcher of job t finishes in this step and the result it reads with
\* get_nowait has status OK.
ConsumesOk(t) ==
    /\ on_finish[t] = "joining"
    /\ on_finish'[t] = "done"
    /\ result_q[proc] # <<>>
    /\ Head(result_q[proc]).status = "ok"

\* C34: when the pool consumes a result with status OK, the VM of the worker
\* that posted it was named VM2login_<hex> and powered off when that worker's
\* process ended: it is not in the Error class and was not left in the Init class.
C34_OkMeansReadyAndOff ==
    [][\A t \in Tasks :
          ConsumesOk(t) => /\ ~Alive(proc)'
                           /\ vms'[proc].name = "Ready"
                           /\ vms'[proc].power = "off"]_vars


\* The Replenisher's sleep ends and the loop runs its next iteration whenever
\* it can; the age of every VMInit_* VM eventually passes the TTL.
TickFairness ==
    /\ WF_vars(Tick)
    /\ \A t \in Tasks : WF_vars(VmAges(t))

\* The whole system with a watermark of one or two VMs, under fair scheduling
\* of the event loop and of the ticks; a worker process may still hang for ever.
FairSpec == MainInit /\ [][Next]_vars /\ PoolFairness /\ TickFairness

\* The next tick would draw a job id beyond the ids the model provides.
OutOfJobIds == created + Enqueues(CountReady, Value(count)) > cap

\* The VM of job t exists and is in neither the Ready nor the Other class.
Unfinished(t) == vms[t].name \in {"Init", "Error"}

SweepNext ==
    \/ WorkerStep(1)
    \/ WorkerCrash(1)
    \/ \E t \in Tasks : VmAges(t)
    \/ \E t \in Tasks : ConsumerTake(t)
    \/ SweepList
    \/ \E t \in Tasks, cls \in {"Error", "Init"} : SweepGetObj(VmName(t, cls))
    \/ \E ok \in BOOLEAN : SweepDelete(ok)

\* The janitor call by call in the main process, while one worker process runs
\* its statements and the age of its clone passes the TTL.
SweepSpec == WorkerInit /\ [][SweepNext]_vars

\* C36: the janitor deletes only VMs that are, at the moment of deletion, in the
\* Fault class or in the Init class and older than the TTL; it never deletes a VM
\* whose name is in the Ready or Other class.
C36_DeletesOnlyFaultOrOldInit ==
    [][\A t \in Tasks :
          (vms[t].name # "absent" /\ vms'[t].name = "absent")
              => \/ vms[t].name = "Error"
                 \/ vms[t].name = "Init" /\ vms[t].old]_vars


LoopNext ==
    \/ MainNext
    \/ TickCountReadyRaises

\* The service from start to shutdown with a vCenter whose answer to the
\* Replenisher's listing may fail.
LoopSpec == MainInit /\ [][LoopNext]_vars

\* C37: Replenisher.run ends only after stop() was called; a failure of
\* count_ready or of another pool call in a tick leaves the loop running.
C37_LoopEndsOnlyOnStop == rep_pc # "running" => stop


\* C38: retry_sync never returns normally unless a call of fn has succeeded: for
\* every retries value, retries <= 0 included, a return hands back the value of
\* a successful call of fn.
C38_ReturnsOnlyAfterSuccess ==
    retry.pc = "returned" =>
        /\ retry.value >= 1
        /\ retry.outcomes[retry.value] = "ok"

====
